---- MODULE Spec2Model ----
(***************************************************************************)
(* Model of scripts/http-wake.py: a single-threaded HTTPServer on          *)
(* 127.0.0.1:8765 whose handler class WakeHandler defines do_POST and      *)
(* log_message only.  POST /wake runs `pkill -USR1 touch-timeout` and maps *)
(* the outcome to an HTTP response.                                        *)
(*                                                                         *)
(* The __main__ block moves NOT_STARTED -> BOUND -> ANNOUNCING ->          *)
(* LISTENING inside its try block; a KeyboardInterrupt anywhere in the try *)
(* block leads to SHUT_DOWN, an OSError from the bind to CRASHED_ON_BIND.  *)
(* Requests are served one at a time (HTTPServer is not threaded); do_POST *)
(* for /wake is modelled in two steps around the blocking subprocess.run.  *)
(*                                                                         *)
(* A request target is a sequence of pieces in which every "/" is a piece  *)
(* of its own: "/wake" is <<"/", "wake">>, "//wake" is <<"/", "/", "wake">>*)
(* and "/wake?x=1" is <<"/", "wake", "?x=1">>.  sys.stderr is the sequence *)
(* of strings written to it; print(x) writes x and then "\n".              *)
(***************************************************************************)
EXTENDS Integers, Sequences, FiniteSets, TLC

VARIABLES
    state,        \* position of the __main__ block
    portInUse,    \* environment: another process already holds 127.0.0.1:8765
    listener,     \* TRUE while this process holds the listening socket
    stderr,       \* strings written to sys.stderr, in order
    exitCode,     \* argument of sys.exit, NotExited while the process runs
    pc,           \* "idle", or "run_returned" between subprocess.run and the reply
    cur,          \* the request being handled (method, target, self.path, outcome)
    log,          \* completed exchanges: request, action outcome, response on the wire
    invocations   \* number of times subprocess.run(["pkill", ...]) was called

vars == <<state, portInUse, listener, stderr, exitCode, pc, cur, log, invocations>>

\* Number of request/response exchanges explored per run.
MaxRequests == 3

NotExited == "running"

----------------------------------------------------------------------------
(* Requests and outcomes of the external delivery utility                   *)

Methods == {"POST", "GET", "HEAD"}

\* Request targets as sent on the request line: /wake, //wake, /wake?x=1, /
Targets == { <<"/", "wake">>, <<"/", "/", "wake">>, <<"/", "wake", "?x=1">>, <<"/">> }

\* The literal "/wake" that do_POST compares self.path with.
WakePath == <<"/", "wake">>

\* str.lstrip('/')
RECURSIVE lstrip_slash(_)
lstrip_slash(t) ==
    IF t # <<>> /\ Head(t) = "/" THEN lstrip_slash(Tail(t)) ELSE t

\* self.path as do_POST sees it: BaseHTTPRequestHandler.parse_request
\* reduces a target that starts with '//' to a single leading '/'.
parse_request_path(t) ==
    IF Len(t) >= 2 /\ t[1] = "/" /\ t[2] = "/"
    THEN <<"/">> \o lstrip_slash(t)
    ELSE t

\* pkill exited with the given status: 0 = at least one process signalled,
\* 1 = no process matched, 2 = syntax error, 3 = fatal error.
Exited(rc) == [kind |-> "exited", returncode |-> rc]

\* pkill was killed by SIGKILL: Popen reports returncode -9.
Killed == [kind |-> "exited", returncode |-> -9]

\* Popen could not start the utility (pkill not on PATH):
\* FileNotFoundError(errno 2), an OSError.
SpawnError == [kind |-> "oserror", returncode |-> 2]

\* No external action was attempted for the request.
NotRun == [kind |-> "not_run", returncode |-> 0]

NoMatch == Exited(1)

Outcomes == {Exited(0), NoMatch, Exited(3), Killed, SpawnError}

ActionSucceeded(o) == o.kind = "exited" /\ o.returncode = 0

ActionFailed(o) == o \in Outcomes /\ ~ActionSucceeded(o)

NoRequest == [method |-> "", target |-> <<>>, path |-> <<>>, outcome |-> NotRun]

----------------------------------------------------------------------------
(* Responses                                                                *)

\* The connection was closed without any byte of a response.
NoResponse == [status |-> 0, ctype |-> "", body |-> <<>>]

Response(status, ctype, body) == [status |-> status, ctype |-> ctype, body |-> body]

\* WakeHandler.log_message: the access-log hook; returns what it writes
\* to sys.stderr.
log_message(line) == <<>>

\* Variant: check=True omitted, a non-zero exit status raises nothing.
subprocess_run_nocheck(o) ==
    IF o.kind = "oserror" THEN "FileNotFoundError" ELSE "none"

\* Variant: exit status 1 ("no process matched") is taken for success.
subprocess_run_nomatch_ok(o) ==
    IF o.kind = "oserror" THEN "FileNotFoundError"
    ELSE IF o.returncode \notin {0, 1} THEN "CalledProcessError"
    ELSE "none"

\* subprocess.run(..., check=True): the exception raised, "none" on return.
subprocess_run(o) ==
    IF o.kind = "oserror" THEN "FileNotFoundError"
    ELSE IF o.returncode # 0 THEN "CalledProcessError"
    ELSE "none"

\* signal.Signals: the name of every signal number the enumeration has
\* (1..31, 34 and 64); signal.Signals(n) raises ValueError for any other n.
SignalNames ==
    1 :> "SIGHUP" @@ 2 :> "SIGINT" @@ 3 :> "SIGQUIT" @@ 4 :> "SIGILL" @@
    5 :> "SIGTRAP" @@ 6 :> "SIGABRT" @@ 7 :> "SIGBUS" @@ 8 :> "SIGFPE" @@
    9 :> "SIGKILL" @@ 10 :> "SIGUSR1" @@ 11 :> "SIGSEGV" @@ 12 :> "SIGUSR2" @@
    13 :> "SIGPIPE" @@ 14 :> "SIGALRM" @@ 15 :> "SIGTERM" @@ 16 :> "SIGSTKFLT" @@
    17 :> "SIGCHLD" @@ 18 :> "SIGCONT" @@ 19 :> "SIGSTOP" @@ 20 :> "SIGTSTP" @@
    21 :> "SIGTTIN" @@ 22 :> "SIGTTOU" @@ 23 :> "SIGURG" @@ 24 :> "SIGXCPU" @@
    25 :> "SIGXFSZ" @@ 26 :> "SIGVTALRM" @@ 27 :> "SIGPROF" @@ 28 :> "SIGWINCH" @@
    29 :> "SIGIO" @@ 30 :> "SIGPWR" @@ 31 :> "SIGSYS" @@ 34 :> "SIGRTMIN" @@
    64 :> "SIGRTMAX"

KnownSignals == DOMAIN SignalNames

\* signal.Signals(n).name
SignalName(n) == SignalNames[n]

\* str(e) of the CalledProcessError in the f-string, as pieces of text:
\* "died with <Signals.SIGKILL: 9>." for a negative return code.
CalledProcessErrorStr(o) ==
    IF o.returncode < 0
    THEN IF -o.returncode \in KnownSignals
         THEN <<"Command '['pkill', '-USR1', 'touch-timeout']' died with <Signals.",
                SignalName(-o.returncode), ": ", ToString(-o.returncode), ">.">>
         ELSE <<"Command '['pkill', '-USR1', 'touch-timeout']' died with unknown signal ",
                ToString(-o.returncode), ".">>
    ELSE <<"Command '['pkill', '-USR1', 'touch-timeout']' returned non-zero exit status ",
           ToString(o.returncode), ".">>

\* BaseHTTPRequestHandler.handle_one_request when the handler class has no
\* do_<method>: send_error(501); HEAD gets the headers only.
send_error_501(method) ==
    Response(501, "text/html;charset=utf-8",
             IF method = "HEAD" THEN <<>>
             ELSE <<"<!DOCTYPE HTML>", "Error code: 501",
                    "Message: Unsupported method ('" , method, "')." >>)

\* do_POST, else branch: self.path is not /wake.
do_POST_not_found(path) ==
    Response(404, "text/plain", <<"Not found. Use POST /wake\n">>)

\* Variant: the handler remembers a failure and keeps answering 500 after it.
do_POST_wake_sticky(o) ==
    IF log # <<>> /\ log[Len(log)].resp.status = 500
    THEN Response(500, "text/plain", <<"Error sending signal: ", "previous failure", "\n">>)
    ELSE CASE subprocess_run(o) = "none" ->
                Response(200, "text/plain", <<"Display wake signal sent\n">>)
           [] subprocess_run(o) = "CalledProcessError" ->
                Response(500, "text/plain",
                         <<"Error sending signal: ">> \o CalledProcessErrorStr(o) \o <<"\n">>)
           [] OTHER -> NoResponse

\* do_POST, /wake branch after subprocess.run: what is written to wfile.
do_POST_wake(o) ==
    CASE subprocess_run(o) = "none" ->
            Response(200, "text/plain", <<"Display wake signal sent\n">>)
      [] subprocess_run(o) = "CalledProcessError" ->
            Response(500, "text/plain",
                     <<"Error sending signal: ">> \o CalledProcessErrorStr(o) \o <<"\n">>)
      [] OTHER -> NoResponse

\* socketserver.BaseServer.handle_error: printed for an exception that
\* leaves the handler (traceback frames abbreviated to the final line).
handle_error(o) ==
    IF subprocess_run(o) \in {"none", "CalledProcessError"} THEN <<>>
    ELSE << "----------------------------------------", "\n",
            "Exception occurred during processing of request from ('127.0.0.1', port)", "\n",
            "Traceback (most recent call last):\n",
            "FileNotFoundError: [Errno 2] No such file or directory: 'pkill'\n",
            "----------------------------------------", "\n" >>

----------------------------------------------------------------------------
(* Diagnostics of __main__                                                  *)

\* print(x, file=sys.stderr): the text, then the line end.
print(x) == <<x, "\n">>

StartupLine == "touch-timeout HTTP wake endpoint listening on 127.0.0.1:8765"

BindFailureLines ==
    print("Error starting server: [Errno 98] Address already in use")
    \o print("Is another instance already running? Check: lsof -i :8765")

ShutdownLines == print("\nShutting down...")

Entry(m, t, o, r) ==
    [method |-> m, target |-> t, path |-> parse_request_path(t), outcome |-> o, resp |-> r]

----------------------------------------------------------------------------
Init ==
    /\ state = "NOT_STARTED"
    /\ portInUse \in BOOLEAN
    /\ listener = FALSE
    /\ stderr = <<>>
    /\ exitCode = NotExited
    /\ pc = "idle"
    /\ cur = NoRequest
    /\ log = <<>>
    /\ invocations = 0

\* HTTPServer(("127.0.0.1", 8765), WakeHandler) returns: the socket is
\* bound and listening, nothing has been printed yet.
BindOK ==
    /\ state = "NOT_STARTED"
    /\ ~portInUse
    /\ listener' = TRUE
    /\ state' = "BOUND"
    /\ UNCHANGED <<portInUse, stderr, exitCode, pc, cur, log, invocations>>

\* print(startup line): the text is written ...
AnnounceText ==
    /\ state = "BOUND"
    /\ stderr' = Append(stderr, StartupLine)
    /\ state' = "ANNOUNCING"
    /\ UNCHANGED <<portInUse, listener, exitCode, pc, cur, log, invocations>>

\* ... then the line end, and server.serve_forever() is entered.
ServeForever ==
    /\ state = "ANNOUNCING"
    /\ stderr' = Append(stderr, "\n")
    /\ state' = "LISTENING"
    /\ UNCHANGED <<portInUse, listener, exitCode, pc, cur, log, invocations>>

\* Variant: the startup line is printed before the socket is bound.
BindFail_announced ==
    /\ state = "NOT_STARTED"
    /\ portInUse
    /\ listener' = FALSE
    /\ stderr' = print(StartupLine) \o BindFailureLines
    /\ exitCode' = 1
    /\ state' = "CRASHED_ON_BIND"
    /\ UNCHANGED <<portInUse, pc, cur, log, invocations>>

\* HTTPServer(...) raises OSError: except OSError prints and sys.exit(1).
BindFail ==
    /\ state = "NOT_STARTED"
    /\ portInUse
    /\ listener' = FALSE
    /\ stderr' = stderr \o BindFailureLines
    /\ exitCode' = 1
    /\ state' = "CRASHED_ON_BIND"
    /\ UNCHANGED <<portInUse, pc, cur, log, invocations>>

Serving == state = "LISTENING" /\ pc = "idle" /\ Len(log) < MaxRequests

\* A request whose method has no do_<method> in WakeHandler.
HandleUnsupported(m, t) ==
    /\ Serving
    /\ m # "POST"
    /\ log' = Append(log, Entry(m, t, NotRun, send_error_501(m)))
    /\ stderr' = stderr \o log_message("code 501")
    /\ UNCHANGED <<state, portInUse, listener, exitCode, pc, cur, invocations>>

\* do_POST with self.path != "/wake".
PostNotFound(t) ==
    /\ Serving
    /\ parse_request_path(t) # WakePath
    /\ log' = Append(log, Entry("POST", t, NotRun, do_POST_not_found(parse_request_path(t))))
    /\ stderr' = stderr \o log_message("POST 404")
    /\ UNCHANGED <<state, portInUse, listener, exitCode, pc, cur, invocations>>

\* do_POST with self.path == "/wake": subprocess.run is called and blocks
\* until the utility has finished (or could not be started).
PostWakeRun(t, o) ==
    /\ Serving
    /\ parse_request_path(t) = WakePath
    /\ invocations' = invocations + 1
    /\ cur' = [method |-> "POST", target |-> t, path |-> parse_request_path(t), outcome |-> o]
    /\ pc' = "run_returned"
    /\ UNCHANGED <<state, portInUse, listener, stderr, exitCode, log>>

\* do_POST, continued: the response is written, or the exception leaves the
\* handler and the server's handle_error reports it and closes the connection.
PostWakeReply ==
    /\ state = "LISTENING"
    /\ pc = "run_returned"
    /\ log' = Append(log, Entry(cur.method, cur.target, cur.outcome, do_POST_wake(cur.outcome)))
    /\ stderr' = stderr \o (IF do_POST_wake(cur.outcome) = NoResponse
                            THEN handle_error(cur.outcome)
                            ELSE log_message("POST /wake"))
    /\ pc' = "idle"
    /\ cur' = NoRequest
    /\ UNCHANGED <<state, portInUse, listener, exitCode, invocations>>

\* Positions of __main__ inside the try block (lines 72-76).
InTryBlock == state \in {"NOT_STARTED", "BOUND", "ANNOUNCING", "LISTENING"}

\* Variant: the interrupt is reported as an error exit.
Interrupt_exit1 ==
    /\ InTryBlock
    /\ stderr' = stderr \o ShutdownLines
    /\ exitCode' = 1
    /\ listener' = FALSE
    /\ state' = "SHUT_DOWN"
    /\ UNCHANGED <<portInUse, pc, cur, log, invocations>>

\* KeyboardInterrupt raised anywhere in the try block: while the server is
\* constructed, before or inside the startup print, or in serve_forever
\* (possibly while a request is being handled).  except KeyboardInterrupt
\* prints and sys.exit(0); the socket is closed with the process.
Interrupt ==
    /\ InTryBlock
    /\ stderr' = stderr \o ShutdownLines
    /\ exitCode' = 0
    /\ listener' = FALSE
    /\ state' = "SHUT_DOWN"
    /\ UNCHANGED <<portInUse, pc, cur, log, invocations>>

Next ==
    \/ BindOK
    \/ AnnounceText
    \/ ServeForever
    \/ BindFail
    \/ \E m \in Methods, t \in Targets : HandleUnsupported(m, t)
    \/ \E t \in Targets : PostNotFound(t)
    \/ \E t \in Targets, o \in Outcomes : PostWakeRun(t, o)
    \/ PostWakeReply
    \/ Interrupt

Spec == Init /\ [][Next]_vars

----------------------------------------------------------------------------
(* Properties                                                               *)

\* The request line said POST /wake.
IsWake(e) == e.method = "POST" /\ e.target = <<"/", "wake">>

Handled == {log[i] : i \in DOMAIN log}

IsErrorSendingSignal(r) ==
    /\ r.status = 500
    /\ r.ctype = "text/plain"
    /\ Len(r.body) >= 2
    /\ r.body[1] = "Error sending signal: "
    /\ r.body[Len(r.body)] = "\n"

Range(s) == {s[i] : i \in DOMAIN s}

\* C1: every request whose method is not POST or whose path is not exactly
\* /wake is answered 404 with the body 'Not found. Use POST /wake\n'.
C1_OtherRequestsAre404 ==
    \A e \in Handled :
        (e.method # "POST" \/ e.target # <<"/", "wake">>) =>
            (e.resp.status = 404 /\ e.resp.body = <<"Not found. Use POST /wake\n">>)

\* C2: every POST /wake whose delivery action fails in any way (non-zero
\* exit, or the utility could not be run at all) is answered 500 text/plain
\* with a body that starts with 'Error sending signal:' and ends with a newline.
C2_AnyFailureIs500 ==
    \A e \in Handled :
        (IsWake(e) /\ ActionFailed(e.outcome)) => IsErrorSendingSignal(e.resp)

\* C3: every POST /wake whose delivery action succeeds is answered 200
\* text/plain with the body 'Display wake signal sent\n', and no request
\* whose action failed (or that ran no action) is answered 200.
C3_SuccessIs200 ==
    \A e \in Handled :
        /\ (IsWake(e) /\ ActionSucceeded(e.outcome)) =>
                e.resp = Response(200, "text/plain", <<"Display wake signal sent\n">>)
        /\ e.resp.status = 200 => ActionSucceeded(e.outcome)

C3_Witness ==
    /\ \E e \in Handled : IsWake(e) /\ ActionSucceeded(e.outcome) /\ e.resp.status = 200
    /\ \E e \in Handled : IsWake(e) /\ e.outcome = NoMatch
    /\ \E e \in Handled : IsWake(e) /\ e.outcome = SpawnError

\* C4: handling a request, whatever the outcome of its action, leaves the
\* server in LISTENING and the request answered (a response is written).
C4_EveryRequestAnswered ==
    [][Len(log') > Len(log) =>
            (state' = "LISTENING" /\ log'[Len(log')].resp # NoResponse)]_vars

\* C5: when binding fails the process prints the start-up failure diagnostic
\* on stderr and exits with status 1; the start-up line is never printed, no
\* request is served, no delivery is attempted and no listener is held.
C5_BindFailureIsFatal ==
    state = "CRASHED_ON_BIND" =>
        /\ exitCode = 1
        /\ stderr = BindFailureLines
        /\ StartupLine \notin Range(stderr)
        /\ ~listener
        /\ log = <<>>
        /\ invocations = 0
        /\ pc = "idle"

C5_Witness == portInUse /\ state = "CRASHED_ON_BIND" /\ Len(stderr) = 4

\* C6: an interrupt in LISTENING prints the shutdown notice on stderr and
\* exits with status 0 with the port released; once shut down no request is
\* served and no delivery is attempted.
C6_InterruptShutsDownCleanly ==
    /\ [][(state = "LISTENING" /\ state' # "LISTENING") =>
            /\ state' = "SHUT_DOWN"
            /\ exitCode' = 0
            /\ ~listener'
            /\ stderr' = stderr \o ShutdownLines]_vars
    /\ [](state = "SHUT_DOWN" =>
            /\ exitCode = 0
            /\ ~listener
            /\ Len(stderr) >= 2
            /\ SubSeq(stderr, Len(stderr) - 1, Len(stderr)) = ShutdownLines)
    /\ [][state = "SHUT_DOWN" => UNCHANGED <<state, log, invocations, stderr, exitCode>>]_vars

C6_Witness ==
    /\ state = "SHUT_DOWN"
    /\ exitCode = 0
    /\ stderr = print(StartupLine) \o ShutdownLines
    /\ \E e \in Handled : IsWake(e) /\ e.resp.status = 500
    /\ pc = "run_returned"

\* C7: handling a request (successful, failing or unrouted) never adds
\* anything to stderr; only the start-up line, the start-up failure
\* diagnostic and the shutdown notice appear.
C7_RequestsNeverLog ==
    /\ [][log' # log => stderr' = stderr]_vars
    /\ [](Range(stderr) \subseteq
            (Range(print(StartupLine)) \cup Range(BindFailureLines) \cup Range(ShutdownLines)))

\* C8: the response depends only on the request's method and path and the
\* outcome of its own action: any two handled requests that agree on these
\* get the same response, whatever was handled before each of them.
C8_ResponseIndependentOfHistory ==
    \A i, j \in DOMAIN log :
        (/\ log[i].method = log[j].method
         /\ log[i].target = log[j].target
         /\ log[i].outcome = log[j].outcome) => log[i].resp = log[j].resp

C8_Witness ==
    /\ Len(log) >= 3
    /\ IsWake(log[1]) /\ ActionSucceeded(log[1].outcome)
    /\ IsWake(log[2]) /\ log[2].resp.status = 500
    /\ log[3].method = log[1].method /\ log[3].target = log[1].target
    /\ log[3].outcome = log[1].outcome
    /\ log[3].resp.status = 200

\* C9: a POST /wake for which pkill finds no matching process (exit status 1)
\* is answered like any other non-zero exit: 500 with an
\* 'Error sending signal:' body, never 200.
C9_NoMatchIs500 ==
    \A e \in Handled :
        (IsWake(e) /\ e.outcome = NoMatch) =>
            /\ e.resp.status # 200
            /\ IsErrorSendingSignal(e.resp)
            /\ \A f \in Handled :
                  (IsWake(f) /\ f.outcome.kind = "exited" /\ f.outcome.returncode > 1) =>
                      (f.resp.status = e.resp.status /\ f.resp.ctype = e.resp.ctype
                       /\ f.resp.body[1] = e.resp.body[1])

C9_Witness ==
    /\ \E e \in Handled : IsWake(e) /\ e.outcome = NoMatch /\ e.resp.status = 500
    /\ \E f \in Handled : IsWake(f) /\ f.outcome = Exited(3)

WakeCount == Cardinality({i \in DOMAIN log : IsWake(log[i])})

\* C10: the delivery action is invoked exactly once per POST /wake
\* request, before its response is written, never for any other request and
\* never retried: the number of invocations equals the number of requests
\* whose request line is POST /wake (plus the one in flight).
C10_OneDeliveryPerWakeRequestLine ==
    /\ [](/\ invocations = WakeCount + (IF pc = "run_returned" THEN 1 ELSE 0)
          /\ \A e \in Handled : IsWake(e) <=> e.outcome # NotRun)
    /\ [][(Len(log') > Len(log) /\ IsWake(log'[Len(log')])) =>
            (/\ pc = "run_returned"
             /\ invocations' = invocations
             /\ log'[Len(log')].outcome = cur.outcome)]_vars

====
